---- MODULE Spec2Model ----
(***************************************************************************)
(* Model of the report-generator main window of PyELEGANT                  *)
(* (src/src/pyelegant/guis/nsls2apcluster/gui_genreport.py):               *)
(*   - the include / recalc / replot check boxes of the nonlinear          *)
(*     calculation types and their three "all" check boxes;                *)
(*   - the catalog of calculation option sets (self._calc_opts), the       *)
(*     option editor dialogs and the rename done when an edit is accepted. *)
(*                                                                         *)
(* Qt facts the model relies on:                                           *)
(*   - QAbstractButton.clicked(checked) is emitted when the user clicks    *)
(*     the button, after the check state was toggled; setChecked() does    *)
(*     not emit clicked;                                                   *)
(*   - a disabled widget receives no clicks;                               *)
(*   - a modal dialog (exec_) blocks the input of the main window.         *)
(*                                                                         *)
(* Floating point parameters are held as integers in units of 1e-6.        *)
(***************************************************************************)
EXTENDS Integers, Sequences, FiniteSets, TLC

VARIABLES
    checkBox_nonlin,      \* [field][calc_type] -> [checked, enabled]
    checkBox_nonlin_all,  \* [field] -> checked state of checkBox_nonlin_<field>_all
    calc_opts,            \* self._calc_opts: [calc_type] -> ordered dict (sequence of items)
    calc_opts_id,         \* [calc_type] -> ordered dict: name -> the dict object it refers to
    editor,               \* comboBox_nonlin_calc_opts_calc_type / _set_name
    selector,             \* [calc_type] -> comboBox_nonlin_<calc_type>_calc_opt_name
    pc,                   \* position of open_calc_opt_edit_dialog
    dialog,               \* the widgets of the open option dialog
    old_new_opt_set_names,\* the dict shared by the main window and the dialog
    n_edits,              \* number of times the editor was opened
    n_picks,              \* number of times the user picked a name in a selector
    hist,                 \* the last check box operation and what it saw (history only)
    ehist                 \* the last step of the option editor (history only)

vars == <<checkBox_nonlin, checkBox_nonlin_all, calc_opts, calc_opts_id, editor, selector,
          pc, dialog, old_new_opt_set_names, n_edits, n_picks, hist, ehist>>

selVars == <<checkBox_nonlin, checkBox_nonlin_all>>
catVars == <<calc_opts, calc_opts_id, editor, selector, pc, dialog, old_new_opt_set_names,
            n_edits, n_picks, ehist>>

-----------------------------------------------------------------------------
(* Bounds of the exploration *)

\* the user clicks the per-kind check boxes of the first NumClickKinds kinds
NumClickKinds == 2
\* the user opens the option editor at most MaxEdits times
MaxEdits == 1
\* the user picks a name in a per-kind selector at most MaxPicks times
MaxPicks == 1
\* the user works in the editor and the selectors of the first NumVisitKinds
\* kinds of VisitOrder
NumVisitKinds == 3

-----------------------------------------------------------------------------
(* The analysis kinds *)

all_nonlin_calc_types ==
    <<"xy_aper", "fmap_xy", "fmap_px", "cmap_xy", "cmap_px", "tswa",
      "nonlin_chrom", "mom_aper">>

Kinds == {all_nonlin_calc_types[i] : i \in 1..Len(all_nonlin_calc_types)}

ClickKinds ==
    {all_nonlin_calc_types[i] : i \in 1..NumClickKinds} \cap Kinds

\* the order in which the exploration takes up the kinds in the option editor
VisitOrder ==
    <<"xy_aper", "fmap_px", "tswa", "cmap_xy", "fmap_xy", "cmap_px",
      "nonlin_chrom", "mom_aper">>

VisitKinds ==
    {VisitOrder[i] : i \in 1..NumVisitKinds} \cap Kinds

Fields == {"include", "recalc", "replot"}

-----------------------------------------------------------------------------
(* Selection state as the spec names it *)

include(k) == checkBox_nonlin["include"][k].checked
recalc(k) == checkBox_nonlin["recalc"][k].checked
replot(k) == checkBox_nonlin["replot"][k].checked
includeAll == checkBox_nonlin_all["include"]
recalcAll == checkBox_nonlin_all["recalc"]
replotAll == checkBox_nonlin_all["replot"]

-----------------------------------------------------------------------------
(* Handlers of the check boxes *)

\* QCheckBox.setChecked / setEnabled on one widget
setChecked(w, checked) == [w EXCEPT !.checked = checked]
setEnabled(w, enabled) == [w EXCEPT !.enabled = enabled]

\* mutant: disabling the recalc / replot boxes also unchecks them
change_state_recalc_replot_checkboxes_clearing(cb, calc_type, include_checked) ==
    [cb EXCEPT !["recalc"][calc_type] =
                    IF include_checked THEN setEnabled(@, TRUE)
                    ELSE setChecked(setEnabled(@, FALSE), FALSE),
               !["replot"][calc_type] =
                    IF include_checked THEN setEnabled(@, TRUE)
                    ELSE setChecked(setEnabled(@, FALSE), FALSE)]

change_state_recalc_replot_checkboxes(cb, calc_type, include_checked) ==
    [cb EXCEPT !["recalc"][calc_type] = setEnabled(@, include_checked),
               !["replot"][calc_type] = setEnabled(@, include_checked)]

\* mutant: the "all" box is left alone when a kind is unchecked
uncheck_all_include_never(all, checked) == all

uncheck_all_include(all, checked) ==
    IF ~checked THEN [all EXCEPT !["include"] = FALSE] ELSE all

\* mutant: unchecking a recalc box takes the "all" box of replot off too
uncheck_all_recalc_and_replot(all, checked) ==
    IF ~checked THEN [all EXCEPT !["recalc"] = FALSE, !["replot"] = FALSE] ELSE all

uncheck_all_recalc(all, checked) ==
    IF ~checked THEN [all EXCEPT !["recalc"] = FALSE] ELSE all

uncheck_all_replot(all, checked) ==
    IF ~checked THEN [all EXCEPT !["replot"] = FALSE] ELSE all

change_all_nonlin_calc_type_checkbox_states_include(cb, checked) ==
    [cb EXCEPT !["include"] = [k \in Kinds |-> setChecked(cb["include"][k], checked)]]

\* mutant: the loop stops before the last calculation type
change_all_nonlin_calc_type_checkbox_states_recalc_short(cb, checked) ==
    [cb EXCEPT !["recalc"] =
        [k \in Kinds |-> IF k = all_nonlin_calc_types[Len(all_nonlin_calc_types)]
                         THEN cb["recalc"][k]
                         ELSE setChecked(cb["recalc"][k], checked)]]

change_all_nonlin_calc_type_checkbox_states_recalc(cb, checked) ==
    [cb EXCEPT !["recalc"] = [k \in Kinds |-> setChecked(cb["recalc"][k], checked)]]

change_all_nonlin_calc_type_checkbox_states_replot(cb, checked) ==
    [cb EXCEPT !["replot"] = [k \in Kinds |-> setChecked(cb["replot"][k], checked)]]

\* the user's click toggles the box before the clicked(checked) slots run
clickToggle(cb, field, k) ==
    [cb EXCEPT ![field][k] = setChecked(@, ~cb[field][k].checked)]

\* the slots connected to the clicked signal of one per-kind check box, in
\* the order of their connection
\* mutant: unchecking the "all" box runs its clicked handler, which pushes
\* the unchecked state down to every kind
slots_include_cascading(cb, all, k, checked) ==
    [all |-> uncheck_all_include(all, checked),
     cb  |-> IF checked THEN change_state_recalc_replot_checkboxes(cb, k, checked)
             ELSE change_all_nonlin_calc_type_checkbox_states_include(
                      change_state_recalc_replot_checkboxes(cb, k, checked), FALSE)]

slots_include(cb, all, k, checked) ==
    [all |-> uncheck_all_include(all, checked),
     cb  |-> change_state_recalc_replot_checkboxes(cb, k, checked)]

slots_recalc(cb, all, k, checked) ==
    [all |-> uncheck_all_recalc(all, checked), cb |-> cb]

slots_replot(cb, all, k, checked) ==
    [all |-> uncheck_all_replot(all, checked), cb |-> cb]

NoRoundTrip == [kind |-> "none", recalc |-> FALSE, replot |-> FALSE]

\* history of a click: the operation and the values it found
SelHist(op, field, k, value) ==
    [op |-> op, field |-> field, kind |-> k, value |-> value,
     allBefore |-> checkBox_nonlin_all[field],
     pre |-> IF k \in Kinds
             THEN [kind |-> k, recalc |-> recalc(k), replot |-> replot(k)]
             ELSE NoRoundTrip,
     \* set when this is setInclude(k, TRUE) right after setInclude(k, FALSE):
     \* the recalc / replot values found by the first of the two calls
     roundTrip |-> IF /\ op = "set" /\ field = "include" /\ value
                      /\ hist.op = "set" /\ hist.field = "include"
                      /\ hist.kind = k /\ ~hist.value
                   THEN hist.pre ELSE NoRoundTrip]

ClickInclude(k) ==
    /\ pc = "idle"
    /\ checkBox_nonlin["include"][k].enabled
    /\ LET checked == ~include(k)
           r == slots_include(clickToggle(checkBox_nonlin, "include", k),
                              checkBox_nonlin_all, k, checked)
       IN /\ checkBox_nonlin' = r.cb
          /\ checkBox_nonlin_all' = r.all
          /\ hist' = SelHist("set", "include", k, checked)
    /\ UNCHANGED catVars

ClickRecalc(k) ==
    /\ pc = "idle"
    /\ checkBox_nonlin["recalc"][k].enabled
    /\ LET checked == ~recalc(k)
           r == slots_recalc(clickToggle(checkBox_nonlin, "recalc", k),
                             checkBox_nonlin_all, k, checked)
       IN /\ checkBox_nonlin' = r.cb
          /\ checkBox_nonlin_all' = r.all
          /\ hist' = SelHist("set", "recalc", k, checked)
    /\ UNCHANGED catVars

ClickReplot(k) ==
    /\ pc = "idle"
    /\ checkBox_nonlin["replot"][k].enabled
    /\ LET checked == ~replot(k)
           r == slots_replot(clickToggle(checkBox_nonlin, "replot", k),
                             checkBox_nonlin_all, k, checked)
       IN /\ checkBox_nonlin' = r.cb
          /\ checkBox_nonlin_all' = r.all
          /\ hist' = SelHist("set", "replot", k, checked)
    /\ UNCHANGED catVars

ClickIncludeAll ==
    /\ pc = "idle"
    /\ LET checked == ~includeAll
       IN /\ checkBox_nonlin_all' = [checkBox_nonlin_all EXCEPT !["include"] = checked]
          /\ checkBox_nonlin' =
                change_all_nonlin_calc_type_checkbox_states_include(checkBox_nonlin, checked)
          /\ hist' = SelHist("setAll", "include", "all", checked)
    /\ UNCHANGED catVars

ClickRecalcAll ==
    /\ pc = "idle"
    /\ LET checked == ~recalcAll
       IN /\ checkBox_nonlin_all' = [checkBox_nonlin_all EXCEPT !["recalc"] = checked]
          /\ checkBox_nonlin' =
                change_all_nonlin_calc_type_checkbox_states_recalc(checkBox_nonlin, checked)
          /\ hist' = SelHist("setAll", "recalc", "all", checked)
    /\ UNCHANGED catVars

ClickReplotAll ==
    /\ pc = "idle"
    /\ LET checked == ~replotAll
       IN /\ checkBox_nonlin_all' = [checkBox_nonlin_all EXCEPT !["replot"] = checked]
          /\ checkBox_nonlin' =
                change_all_nonlin_calc_type_checkbox_states_replot(checkBox_nonlin, checked)
          /\ hist' = SelHist("setAll", "replot", "all", checked)
    /\ UNCHANGED catVars

-----------------------------------------------------------------------------
(* Python dict of option sets: a sequence of items in insertion order *)

DictKeys(d) == [i \in 1..Len(d) |-> d[i].name]

DictHas(d, key) == \E i \in 1..Len(d) : d[i].name = key

DictIndex(d, key) == CHOOSE i \in 1..Len(d) : d[i].name = key

\* d[key]; the caller checks DictHas first (KeyError otherwise)
DictGet_first(d, key) == d[1].opts
DictGet(d, key) == d[DictIndex(d, key)].opts

DictSet_first(d, key, value) ==
    IF DictHas(d, key)
    THEN [d EXCEPT ![DictIndex(d, key)] = [name |-> key, opts |-> value]]
    ELSE <<[name |-> key, opts |-> value]>> \o d

\* d[key] = value: an existing key keeps its place, a new key goes last
DictSet(d, key, value) ==
    IF DictHas(d, key)
    THEN [d EXCEPT ![DictIndex(d, key)] = [name |-> key, opts |-> value]]
    ELSE Append(d, [name |-> key, opts |-> value])

\* del d[key]
DictDel(d, key) ==
    LET i == DictIndex(d, key)
    IN [j \in 1..(Len(d) - 1) |-> IF j < i THEN d[j] ELSE d[j + 1]]

\* dict.update on one option set: keys of u are added or overwritten
OptsUpdate(o, u) ==
    [key \in (DOMAIN o) \cup (DOMAIN u) |-> IF key \in DOMAIN u THEN u[key] ELSE o[key]]

\* copy.deepcopy: values of the model are not shared, the copy is the value
deepcopy(o) == o

-----------------------------------------------------------------------------
(* _set_default_calc_opt_sets; floating point values in units of 1e-6 *)

xy_aper_production ==
    [n_turns |-> 1024, abs_xmax |-> 10000, abs_ymax |-> 10000,
     ini_ndiv |-> 51, n_lines |-> 21, neg_y_search |-> FALSE]

fmap_xy_production ==
    [n_turns |-> 1024, xmin |-> -10000, xmax |-> 10000, ymin |-> 0,
     ymax |-> 5000, nx |-> 201, ny |-> 201,
     x_offset |-> 1, y_offset |-> 1, delta_offset |-> 0]

fmap_px_production ==
    [n_turns |-> 1024, delta_min |-> -50000, delta_max |-> 50000,
     xmin |-> -10000, xmax |-> 10000, ndelta |-> 201, nx |-> 201,
     x_offset |-> 1, y_offset |-> 1, delta_offset |-> 0]

tswa_production ==
    [n_turns |-> 1024, abs_xmax |-> 5000, nx |-> 50, abs_ymax |-> 3000,
     ny |-> 50, x_offset |-> 1, y_offset |-> 1,
     remote_opts |-> [partition |-> "short", time |-> "30:00"]]

nonlin_chrom_production ==
    [n_turns |-> 1024, delta_min |-> -30000, delta_max |-> 30000,
     ndelta |-> 100, x_offset |-> 1, y_offset |-> 1, delta_offset |-> 0,
     remote_opts |-> [partition |-> "short", time |-> "30:00"],
     save_fft |-> FALSE]

mom_aper_production ==
    [n_turns |-> 1024, x_initial |-> 10, y_initial |-> 10,
     delta_negative_start |-> -1000, delta_negative_limit |-> -50000,
     delta_positive_start |-> 1000, delta_positive_limit |-> 50000,
     init_delta_step_size |-> 5000, include_name_pattern |-> "[QSO]*"]

\* dict(production=p) followed by d['test'] = deepcopy(src); d['test'].update(u)
ProductionAndTest(p, src, u) ==
    DictSet(DictSet(<<>>, "production", p), "test", OptsUpdate(deepcopy(src), u))

fmap_xy_test == OptsUpdate(deepcopy(fmap_xy_production), [nx |-> 21, ny |-> 21])
fmap_px_test == OptsUpdate(deepcopy(fmap_px_production), [nx |-> 21, ny |-> 21])

set_default_calc_opt_sets ==
    [k \in Kinds |->
        CASE k = "xy_aper" ->
                ProductionAndTest(xy_aper_production, xy_aper_production,
                                  [n_turns |-> 128])
          [] k = "fmap_xy" ->
                ProductionAndTest(fmap_xy_production, fmap_xy_production,
                                  [nx |-> 21, ny |-> 21])
          [] k = "fmap_px" ->
                ProductionAndTest(fmap_px_production, fmap_px_production,
                                  [nx |-> 21, ny |-> 21])
          [] k = "cmap_xy" ->
                ProductionAndTest(deepcopy(fmap_xy_production), fmap_xy_test,
                                  [n_turns |-> 128])
          [] k = "cmap_px" ->
                ProductionAndTest(deepcopy(fmap_px_production), fmap_px_test,
                                  [n_turns |-> 128])
          [] k = "tswa" -> DictSet(<<>>, "production", tswa_production)
          [] k = "nonlin_chrom" -> DictSet(<<>>, "production", nonlin_chrom_production)
          [] k = "mom_aper" ->
                ProductionAndTest(mom_aper_production, mom_aper_production,
                                  [n_turns |-> 16, include_name_pattern |-> "O*"])]

\* the seeded entries written into the dicts that are there
RECURSIVE DictSetAll(_, _)
DictSetAll(d, u) ==
    IF u = <<>> THEN d
    ELSE DictSetAll(DictSet(d, Head(u).name, Head(u).opts), Tail(u))

set_default_calc_opt_sets_merging(calc_opts_before) ==
    [k \in Kinds |-> DictSetAll(calc_opts_before[k], set_default_calc_opt_sets[k])]

\* _set_default_calc_opt_sets called on a window whose catalog is
\* calc_opts_before: the catalog is replaced by a dict of empty dicts and
\* every kind is then assigned a newly built dict
set_default_calc_opt_sets_over(calc_opts_before) ==
    LET emptied == [k \in Kinds |-> <<>>]
    IN [k \in Kinds |-> DictSetAll(emptied[k], set_default_calc_opt_sets[k])]

-----------------------------------------------------------------------------
(* The dict objects the catalog refers to. An option set is a Python dict;  *)
(* two names that refer to one dict object see every write to it. A dict    *)
(* object is named after the statement that made it.                        *)

\* a dict display or dict(...) call makes a new object
NewObject(calc_type, name) == <<calc_type, name>>

deepcopy_id_shared(source_id, calc_type, name) == source_id

\* copy.deepcopy makes a new object, whatever it copies
deepcopy_id(source_id, calc_type, name) == NewObject(calc_type, name)

\* dict(production=p); d['test'] = deepcopy(the object source_id)
ProductionAndTestIds(k, production_id, source_id) ==
    DictSet(DictSet(<<>>, "production", production_id),
            "test", deepcopy_id(source_id, k, "test"))

\* the objects _set_default_calc_opt_sets makes, as the catalog refers to
\* them
set_default_calc_opt_ids ==
    LET own(k) == NewObject(k, "production")
        fmap_test(k) == deepcopy_id(own(k), k, "test")
    IN [k \in Kinds |->
        CASE k \in {"xy_aper", "fmap_xy", "fmap_px", "mom_aper"} ->
                ProductionAndTestIds(k, own(k), own(k))
          [] k = "cmap_xy" ->
                ProductionAndTestIds(k, deepcopy_id(own("fmap_xy"), k, "production"),
                                     fmap_test("fmap_xy"))
          [] k = "cmap_px" ->
                ProductionAndTestIds(k, deepcopy_id(own("fmap_px"), k, "production"),
                                     fmap_test("fmap_px"))
          [] OTHER -> DictSet(<<>>, "production", own(k))]

\* a write to the dict object id: every entry that refers to it holds the
\* new value
write_object(opts, ids, id, value) ==
    [k \in Kinds |->
        [i \in 1..Len(opts[k]) |->
            IF DictGet(ids[k], opts[k][i].name) = id
            THEN [name |-> opts[k][i].name, opts |-> value]
            ELSE opts[k][i]]]

-----------------------------------------------------------------------------
(* QComboBox: items and current index; index 0 stands for Qt's -1 (no      *)
(* current item), item i of the model is Qt's item i - 1                    *)

EmptyComboBox == [items |-> <<>>, cur |-> 0]

currentText(c) == IF c.cur = 0 THEN "" ELSE c.items[c.cur]

clear(c) == EmptyComboBox

\* the first item put into an empty combo box becomes the current one
addItems(c, texts) ==
    [items |-> c.items \o texts,
     cur |-> IF Len(c.items) = 0 /\ Len(texts) > 0 THEN 1 ELSE c.cur]

findText(c, text) ==
    IF \E i \in 1..Len(c.items) : c.items[i] = text
    THEN CHOOSE i \in 1..Len(c.items) :
            /\ c.items[i] = text
            /\ \A j \in 1..(i - 1) : c.items[j] # text
    ELSE 0

setCurrentIndex(c, i) == [c EXCEPT !.cur = IF i \in 0..Len(c.items) THEN i ELSE 0]

\* removing the current item moves the current index to the item that takes
\* its place, or to the last item; removing an earlier item shifts it
removeItem(c, i) ==
    IF i \notin 1..Len(c.items) THEN c
    ELSE LET n == Len(c.items) - 1
         IN [items |-> [j \in 1..n |-> IF j < i THEN c.items[j] ELSE c.items[j + 1]],
             cur |-> IF c.cur > i THEN c.cur - 1
                     ELSE IF c.cur = i THEN (IF i <= n THEN i ELSE n)
                     ELSE c.cur]

insertItem(c, i, text) ==
    LET at == IF i < 1 THEN 1 ELSE IF i > Len(c.items) + 1 THEN Len(c.items) + 1 ELSE i
        n == Len(c.items) + 1
    IN [items |-> [j \in 1..n |-> IF j < at THEN c.items[j]
                                  ELSE IF j = at THEN text ELSE c.items[j - 1]],
        cur |-> IF Len(c.items) = 0 THEN 1
                ELSE IF c.cur >= at THEN c.cur + 1 ELSE c.cur]

\* update_nonlin_calc_opts_set_name_editor_combobox(index)
update_nonlin_calc_opts_set_name_editor_combobox(opts, index) ==
    [calc_type_index |-> index,
     set_name |-> addItems(clear(EmptyComboBox),
                           DictKeys(opts[all_nonlin_calc_types[index]]))]

\* one turn of the loop of update_nonlin_calc_opts_set_name_selector_comboboxes
update_selector_combobox(obj, d) ==
    LET current_text == currentText(obj)
        filled == addItems(clear(obj), DictKeys(d))
    IN setCurrentIndex(filled, findText(filled, current_text))

update_nonlin_calc_opts_set_name_selector_comboboxes(sel, opts) ==
    [k \in Kinds |-> update_selector_combobox(sel[k], opts[k])]

-----------------------------------------------------------------------------
(* Texts of the numeric line edits *)

\* a text is numeric (ok) with its value, or not convertible by float()
NumText(v) == [ok |-> TRUE, val |-> v]
BadText == [ok |-> FALSE, val |-> 0]

RECURSIVE Digits(_)
Digits(n) == IF n < 10 THEN 1 ELSE 1 + Digits(n \div 10)

RECURSIVE Pow10(_)
Pow10(e) == IF e = 0 THEN 1 ELSE 10 * Pow10(e - 1)

\* f'{x:.6g}': six significant digits
Fmt6g(v) ==
    LET a == IF v < 0 THEN -v ELSE v
        d == Digits(a)
    IN IF d <= 6 THEN NumText(v)
       ELSE LET p == Pow10(d - 6)
                q == ((a + (p \div 2)) \div p) * p
            IN NumText(IF v < 0 THEN -q ELSE q)

\* str.strip() of the texts the time line edit holds in the model
BlankTexts == {"", " "}
strip(t) == IF t \in BlankTexts THEN "" ELSE t

\* str(bool) and bool(str)
strOfBool(b) == IF b THEN "True" ELSE "False"
boolOfStr(t) == t # ""

-----------------------------------------------------------------------------
(* The option dialogs *)

\* items of the combo boxes of the map dialog
partition_items == <<"normal", "short", "debug", "long", "longlong", "low", "high">>
diag_mode_items == <<"True", "False">>

\* the remote option widgets as the form leaves them before the constructor
RemoteWidgets ==
    [groupBox_remote_opts |-> FALSE,
     checkBox_partition |-> FALSE,
     comboBox_partition |-> addItems(EmptyComboBox, partition_items),
     checkBox_ntasks |-> FALSE,
     spinBox_ntasks |-> 0,
     checkBox_time |-> FALSE,
     lineEdit_time |-> "",
     checkBox_diag_mode |-> FALSE,
     comboBox_diag_mode |-> addItems(EmptyComboBox, diag_mode_items)]

\* DialogCalcOptMap.__init__, the remote_opts part
RemoteWidgetsOf(opt_dict) ==
    IF "remote_opts" \in DOMAIN opt_dict
    THEN LET remote_opts == opt_dict["remote_opts"]
             w == RemoteWidgets
         IN [groupBox_remote_opts |-> TRUE,
             checkBox_partition |-> "partition" \in DOMAIN remote_opts,
             comboBox_partition |->
                IF "partition" \in DOMAIN remote_opts
                THEN setCurrentIndex(w.comboBox_partition,
                        findText(w.comboBox_partition, remote_opts["partition"]))
                ELSE w.comboBox_partition,
             checkBox_ntasks |-> "ntasks" \in DOMAIN remote_opts,
             spinBox_ntasks |->
                IF "ntasks" \in DOMAIN remote_opts THEN remote_opts["ntasks"]
                ELSE w.spinBox_ntasks,
             checkBox_time |-> "time" \in DOMAIN remote_opts,
             lineEdit_time |->
                IF "time" \in DOMAIN remote_opts THEN remote_opts["time"]
                ELSE w.lineEdit_time,
             checkBox_diag_mode |-> "diag_mode" \in DOMAIN remote_opts,
             comboBox_diag_mode |->
                IF "diag_mode" \in DOMAIN remote_opts
                THEN setCurrentIndex(w.comboBox_diag_mode,
                        findText(w.comboBox_diag_mode,
                                 strOfBool(remote_opts["diag_mode"])))
                ELSE w.comboBox_diag_mode]
    ELSE RemoteWidgets

\* DialogCalcOptMap.__init__: the widgets after construction
DialogCalcOptMap(xy_or_px, old_new, opt_dict) ==
    [form |-> xy_or_px,
     lineEdit_opt_set_name |-> old_new.old,
     spinBox_n_turns |-> opt_dict["n_turns"],
     lineEdit_xmin |-> Fmt6g(opt_dict["xmin"]),
     lineEdit_xmax |-> Fmt6g(opt_dict["xmax"]),
     spinBox_nx |-> opt_dict["nx"],
     \* 'xy': ymin, ymax, ny;  'px': delta_min * 1e2, delta_max * 1e2, ndelta
     lineEdit_2min |-> IF xy_or_px = "xy" THEN Fmt6g(opt_dict["ymin"])
                       ELSE Fmt6g(opt_dict["delta_min"] * 100),
     lineEdit_2max |-> IF xy_or_px = "xy" THEN Fmt6g(opt_dict["ymax"])
                       ELSE Fmt6g(opt_dict["delta_max"] * 100),
     spinBox_n2 |-> IF xy_or_px = "xy" THEN opt_dict["ny"] ELSE opt_dict["ndelta"],
     lineEdit_x_offset |-> Fmt6g(opt_dict["x_offset"]),
     lineEdit_y_offset |-> Fmt6g(opt_dict["y_offset"]),
     lineEdit_delta_offset |-> Fmt6g(opt_dict["delta_offset"]),
     remote |-> RemoteWidgetsOf(opt_dict)]

\* DialogCalcOptXYAper.__init__
DialogCalcOptXYAper(old_new, opt_dict) ==
    [form |-> "xy_aper",
     lineEdit_opt_set_name |-> old_new.old,
     spinBox_n_turns |-> opt_dict["n_turns"],
     lineEdit_abs_xmax |-> Fmt6g(opt_dict["abs_xmax"]),
     lineEdit_abs_ymax |-> Fmt6g(opt_dict["abs_ymax"]),
     spinBox_ini_ndiv |-> opt_dict["ini_ndiv"],
     spinBox_n_lines |-> opt_dict["n_lines"],
     checkBox_neg_y_search |-> opt_dict["neg_y_search"]]

NoDialog == [form |-> "none"]

\* one assignment opt_dict[key] = value of update_opt_dict; a value that
\* float() cannot convert raises ValueError
Write(key, text) == [key |-> key, ok |-> text.ok, val |-> text.val]
WriteVal(key, v) == [key |-> key, ok |-> TRUE, val |-> v]
\* float(text) * 1e-2
WritePercent(key, text) == [key |-> key, ok |-> text.ok, val |-> text.val \div 100]

\* the assignments in program order, stopped by the first that raises
ApplyWrites(opt_dict, ws) ==
    LET bad == {i \in 1..Len(ws) : ~ws[i].ok}
        stop == IF bad = {} THEN Len(ws) + 1
                ELSE CHOOSE i \in bad : \A j \in bad : i <= j
        done == 1..(stop - 1)
    IN [raised |-> bad # {},
        opts |-> [key \in (DOMAIN opt_dict) \cup {ws[i].key : i \in done} |->
                    IF \E i \in done : ws[i].key = key
                    THEN ws[CHOOSE i \in done : ws[i].key = key].val
                    ELSE opt_dict[key]]]

RemoteOptsOf_time_as_typed(r) ==
    LET keys == (IF r.checkBox_partition THEN {"partition"} ELSE {})
                \cup (IF r.checkBox_ntasks THEN {"ntasks"} ELSE {})
                \cup (IF r.checkBox_time THEN {"time"} ELSE {})
                \cup (IF r.checkBox_diag_mode THEN {"diag_mode"} ELSE {})
    IN [key \in keys |->
          CASE key = "partition" -> currentText(r.comboBox_partition)
            [] key = "ntasks" -> r.spinBox_ntasks
            [] key = "time" -> r.lineEdit_time
            [] key = "diag_mode" -> boolOfStr(currentText(r.comboBox_diag_mode))]

\* the remote_opts dict built by DialogCalcOptMap.update_opt_dict
RemoteOptsOf(r) ==
    LET keys == (IF r.checkBox_partition THEN {"partition"} ELSE {})
                \cup (IF r.checkBox_ntasks THEN {"ntasks"} ELSE {})
                \cup (IF r.checkBox_time /\ strip(r.lineEdit_time) # ""
                      THEN {"time"} ELSE {})
                \cup (IF r.checkBox_diag_mode THEN {"diag_mode"} ELSE {})
    IN [key \in keys |->
          CASE key = "partition" -> currentText(r.comboBox_partition)
            [] key = "ntasks" -> r.spinBox_ntasks
            [] key = "time" -> strip(r.lineEdit_time)
            [] key = "diag_mode" -> boolOfStr(currentText(r.comboBox_diag_mode))]

DictWithout(o, key) == [x \in (DOMAIN o) \ {key} |-> o[x]]

\* DialogCalcOptMap.update_opt_dict on the option set the dialog was given
update_opt_dict_map(dlg, opt_dict) ==
    LET isxy == dlg.form = "xy"
        r == ApplyWrites(opt_dict,
               <<WriteVal("n_turns", dlg.spinBox_n_turns),
                 Write("xmin", dlg.lineEdit_xmin),
                 Write("xmax", dlg.lineEdit_xmax),
                 WriteVal("nx", dlg.spinBox_nx),
                 IF isxy THEN Write("ymin", dlg.lineEdit_2min)
                         ELSE WritePercent("delta_min", dlg.lineEdit_2min),
                 IF isxy THEN Write("ymax", dlg.lineEdit_2max)
                         ELSE WritePercent("delta_max", dlg.lineEdit_2max),
                 WriteVal(IF isxy THEN "ny" ELSE "ndelta", dlg.spinBox_n2),
                 Write("x_offset", dlg.lineEdit_x_offset),
                 Write("y_offset", dlg.lineEdit_y_offset),
                 Write("delta_offset", dlg.lineEdit_delta_offset)>>)
    IN IF r.raised THEN r
       ELSE [raised |-> FALSE,
             opts |-> IF dlg.remote.groupBox_remote_opts
                      THEN OptsUpdate(r.opts, [remote_opts |-> RemoteOptsOf(dlg.remote)])
                      ELSE DictWithout(r.opts, "remote_opts")]

\* DialogCalcOptXYAper.update_opt_dict
update_opt_dict_xy_aper(dlg, opt_dict) ==
    ApplyWrites(opt_dict,
        <<WriteVal("n_turns", dlg.spinBox_n_turns),
          Write("abs_xmax", dlg.lineEdit_abs_xmax),
          Write("abs_ymax", dlg.lineEdit_abs_ymax),
          WriteVal("ini_ndiv", dlg.spinBox_ini_ndiv),
          WriteVal("n_lines", dlg.spinBox_n_lines),
          WriteVal("neg_y_search", dlg.checkBox_neg_y_search)>>)

update_opt_dict(dlg, opt_dict) ==
    IF dlg.form = "xy_aper" THEN update_opt_dict_xy_aper(dlg, opt_dict)
    ELSE update_opt_dict_map(dlg, opt_dict)

-----------------------------------------------------------------------------
(* The option editor of the main window *)

\* what the user types into the dialog
NameTexts == {"production", "test", "alt", ""}
TurnValues == {64}

EditableKinds == {"xy_aper", "fmap_xy", "cmap_xy", "fmap_px", "cmap_px"}
NotImplementedKinds == {"tswa", "nonlin_chrom", "mom_aper"}

editor_calc_type == all_nonlin_calc_types[editor.calc_type_index]

EHist(op, kind, old, new, clobbered) ==
    [op |-> op, kind |-> kind, old |-> old, new |-> new, clobbered |-> clobbered]

UserStep == EHist("user", "", "", "", FALSE)

\* the dialog open_calc_opt_edit_dialog builds for calc_type
dialog_for(calc_type, old_new, opts) ==
    IF calc_type = "xy_aper" THEN DialogCalcOptXYAper(old_new, opts)
    ELSE IF calc_type \in {"fmap_xy", "cmap_xy"} THEN DialogCalcOptMap("xy", old_new, opts)
    ELSE DialogCalcOptMap("px", old_new, opts)

\* mutant: the rename is done whenever the dialog was accepted
rename_needed_when_accepted(old_new) == old_new.new # <<>>

\* accepted and (old != new); new == <<>> stands for None
rename_needed(old_new) ==
    /\ old_new.new # <<>>
    /\ old_new.old # old_new.new[1]

\* mutant: the old key is not deleted
rename_opt_set_keeping_old(d, old, new) == DictSet(d, new, DictGet(d, old))
rename_opt_set_dropping_both(d, old, new) == DictDel(d, old)

\* self._calc_opts[calc_type][new] = self._calc_opts[calc_type][old]
\* del self._calc_opts[calc_type][old]
rename_opt_set(d, old, new) ==
    DictDel(DictSet(d, new, DictGet(d, old)), old)

\* the set name combo box of the editor after a rename
rename_in_editor_combobox(c, new) ==
    LET i == c.cur
    IN setCurrentIndex(insertItem(removeItem(c, i), i, new), i)

rename_in_selector_combobox_by_old_text(obj, d, old, new) ==
    LET filled == addItems(clear(obj), DictKeys(d))
    IN setCurrentIndex(filled, findText(filled, currentText(obj)))

\* the name selector of the kind after a rename; d is the dict after it
rename_in_selector_combobox(obj, d, old, new) ==
    LET cur_text == IF currentText(obj) = old THEN new ELSE currentText(obj)
        filled == addItems(clear(obj), DictKeys(d))
    IN setCurrentIndex(filled, findText(filled, cur_text))

\* the user picks another calculation type in the editor
SelectCalcType(index) ==
    /\ pc = "idle"
    /\ index # editor.calc_type_index
    /\ all_nonlin_calc_types[index] \in VisitKinds
    /\ editor' = update_nonlin_calc_opts_set_name_editor_combobox(calc_opts, index)
    /\ ehist' = UserStep
    /\ UNCHANGED <<calc_opts, calc_opts_id, selector, pc, dialog, old_new_opt_set_names, n_edits, n_picks>>
    /\ UNCHANGED <<selVars, hist>>

\* the user picks another set name in the editor
SelectSetName(i) ==
    /\ pc = "idle"
    /\ i \in 1..Len(editor.set_name.items)
    /\ i # editor.set_name.cur
    /\ editor' = [editor EXCEPT !.set_name = setCurrentIndex(@, i)]
    /\ ehist' = UserStep
    /\ UNCHANGED <<calc_opts, calc_opts_id, selector, pc, dialog, old_new_opt_set_names, n_edits, n_picks>>
    /\ UNCHANGED <<selVars, hist>>

\* the user picks the option set to use for one kind
SelectOptName(k, i) ==
    /\ pc = "idle"
    /\ i \in 1..Len(selector[k].items)
    /\ i # selector[k].cur
    /\ n_picks < MaxPicks
    /\ n_picks' = n_picks + 1
    /\ selector' = [selector EXCEPT ![k] = setCurrentIndex(@, i)]
    /\ ehist' = UserStep
    /\ UNCHANGED <<calc_opts, calc_opts_id, editor, pc, dialog, old_new_opt_set_names, n_edits>>
    /\ UNCHANGED <<selVars, hist>>

\* open_calc_opt_edit_dialog up to dialog.exec_(), the editor opened at
\* most max_edits times
\* mutant: the handler empties the name list of the editor before it fails
OpenDialogWithin_clearing(max_edits) ==
    /\ pc = "idle"
    /\ n_edits < max_edits
    /\ editor' = [editor EXCEPT !.set_name = clear(@)]
    /\ ehist' = EHist("NotImplementedError", editor_calc_type,
                      currentText(editor.set_name), "", FALSE)
    /\ UNCHANGED <<calc_opts, calc_opts_id, selector, pc, dialog,
                   old_new_opt_set_names, n_edits, n_picks>>
    /\ UNCHANGED <<selVars, hist>>

OpenDialogWithin(max_edits) ==
    /\ pc = "idle"
    /\ n_edits < max_edits
    /\ LET calc_type == editor_calc_type
           opt_set_name == currentText(editor.set_name)
           old_new == [old |-> opt_set_name, new |-> <<>>]
       IN IF ~DictHas(calc_opts[calc_type], opt_set_name)
          THEN /\ ehist' = EHist("KeyError", calc_type, opt_set_name, "", FALSE)
               /\ UNCHANGED <<pc, dialog, old_new_opt_set_names, n_edits>>
          ELSE IF calc_type \notin EditableKinds
          THEN /\ ehist' = EHist(IF calc_type \in NotImplementedKinds
                                  THEN "NotImplementedError" ELSE "ValueError",
                                  calc_type, opt_set_name, "", FALSE)
               /\ UNCHANGED <<pc, dialog, old_new_opt_set_names, n_edits>>
          ELSE /\ dialog' = dialog_for(calc_type, old_new,
                                       DictGet(calc_opts[calc_type], opt_set_name))
               /\ old_new_opt_set_names' = old_new
               /\ pc' = "dialog"
               /\ n_edits' = n_edits + 1
               /\ ehist' = EHist("open", calc_type, opt_set_name, "", FALSE)
    /\ UNCHANGED <<calc_opts, calc_opts_id, editor, selector, n_picks>>
    /\ UNCHANGED <<selVars, hist>>

OpenDialog == OpenDialogWithin(MaxEdits)

\* the user types a set name into the dialog
EditName(text) ==
    /\ pc = "dialog"
    /\ text # dialog.lineEdit_opt_set_name
    /\ dialog' = [dialog EXCEPT !.lineEdit_opt_set_name = text]
    /\ ehist' = UserStep
    /\ UNCHANGED <<calc_opts, calc_opts_id, editor, selector, pc, old_new_opt_set_names, n_edits, n_picks>>
    /\ UNCHANGED <<selVars, hist>>

\* the user changes the number of turns in the dialog
EditNTurns(v) ==
    /\ pc = "dialog"
    /\ v # dialog.spinBox_n_turns
    /\ dialog' = [dialog EXCEPT !.spinBox_n_turns = v]
    /\ ehist' = UserStep
    /\ UNCHANGED <<calc_opts, calc_opts_id, editor, selector, pc, old_new_opt_set_names, n_edits, n_picks>>
    /\ UNCHANGED <<selVars, hist>>

\* the dialog is accepted: its accepted signal runs update_opt_dict on the
\* option set of the catalog the dialog was given, then exec_() returns
Accept ==
    /\ pc = "dialog"
    /\ LET calc_type == editor_calc_type
           old == old_new_opt_set_names.old
           r == update_opt_dict(dialog, DictGet(calc_opts[calc_type], old))
       IN /\ old_new_opt_set_names' =
                [old_new_opt_set_names EXCEPT !.new = <<dialog.lineEdit_opt_set_name>>]
          /\ calc_opts' = write_object(calc_opts, calc_opts_id,
                                     DictGet(calc_opts_id[calc_type], old), r.opts)
          /\ ehist' = EHist(IF r.raised THEN "ValueError" ELSE "accepted",
                            calc_type, old, dialog.lineEdit_opt_set_name, FALSE)
    /\ pc' = "returned"
    /\ dialog' = NoDialog
    /\ UNCHANGED <<calc_opts_id, editor, selector, n_edits, n_picks>>
    /\ UNCHANGED <<selVars, hist>>

\* mutant: closing the dialog writes its values like accepting it
Reject_updating ==
    /\ pc = "dialog"
    /\ pc' = "returned"
    /\ dialog' = NoDialog
    /\ calc_opts' = write_object(calc_opts, calc_opts_id,
                        DictGet(calc_opts_id[editor_calc_type], old_new_opt_set_names.old),
                        update_opt_dict(dialog, DictGet(calc_opts[editor_calc_type],
                                                        old_new_opt_set_names.old)).opts)
    /\ ehist' = EHist("rejected", editor_calc_type, old_new_opt_set_names.old, "", FALSE)
    /\ UNCHANGED <<calc_opts_id, editor, selector, old_new_opt_set_names, n_edits, n_picks>>
    /\ UNCHANGED <<selVars, hist>>

\* the dialog is closed without being accepted
Reject ==
    /\ pc = "dialog"
    /\ pc' = "returned"
    /\ dialog' = NoDialog
    /\ ehist' = EHist("rejected", editor_calc_type, old_new_opt_set_names.old, "", FALSE)
    /\ UNCHANGED <<calc_opts, calc_opts_id, editor, selector, old_new_opt_set_names, n_edits, n_picks>>
    /\ UNCHANGED <<selVars, hist>>

\* the remote option widgets take input while the group box is checked
\* (change_remote_opts_visibility enables them as the group box is clicked)
remote_opts_enabled(dlg) ==
    /\ dlg.form \in {"xy", "px"}
    /\ dlg.remote.groupBox_remote_opts

RemoteCheckBoxes ==
    {"checkBox_partition", "checkBox_ntasks", "checkBox_time", "checkBox_diag_mode"}

\* what the user picks or types in the remote option widgets
PartitionTexts == {"short", "debug"}
NTasksValues == {0, 200}
TimeTexts == {"", " ", "30:00", "abc"}

\* the user changes a widget of the dialog at most MaxWidgetEdits times
MaxWidgetEdits == MaxPicks + 4

WidgetEdit ==
    /\ pc = "dialog"
    /\ n_picks < MaxWidgetEdits
    /\ n_picks' = n_picks + 1
    /\ ehist' = UserStep
    /\ UNCHANGED <<calc_opts, calc_opts_id, editor, selector, pc, old_new_opt_set_names, n_edits>>
    /\ UNCHANGED <<selVars, hist>>

\* the user clicks the check box of the remote option group
ClickRemoteGroup ==
    /\ WidgetEdit
    /\ dialog.form \in {"xy", "px"}
    /\ dialog' = [dialog EXCEPT !.remote.groupBox_remote_opts = ~@]

\* the user clicks the check box of one remote option
ClickRemoteCheckBox(box) ==
    /\ WidgetEdit
    /\ remote_opts_enabled(dialog)
    /\ dialog' = [dialog EXCEPT !.remote[box] = ~@]

\* the user picks a partition
PickPartition(text) ==
    /\ WidgetEdit
    /\ remote_opts_enabled(dialog)
    /\ LET i == findText(dialog.remote.comboBox_partition, text)
       IN /\ i # 0
          /\ i # dialog.remote.comboBox_partition.cur
          /\ dialog' = [dialog EXCEPT !.remote.comboBox_partition = setCurrentIndex(@, i)]

\* the user sets the number of tasks
SetNTasks(v) ==
    /\ WidgetEdit
    /\ remote_opts_enabled(dialog)
    /\ v # dialog.remote.spinBox_ntasks
    /\ dialog' = [dialog EXCEPT !.remote.spinBox_ntasks = v]

\* the user types a time limit
TypeTime(text) ==
    /\ WidgetEdit
    /\ remote_opts_enabled(dialog)
    /\ text # dialog.remote.lineEdit_time
    /\ dialog' = [dialog EXCEPT !.remote.lineEdit_time = text]

\* the user picks a diagnostic mode
PickDiagMode(i) ==
    /\ WidgetEdit
    /\ remote_opts_enabled(dialog)
    /\ i \in 1..Len(dialog.remote.comboBox_diag_mode.items)
    /\ i # dialog.remote.comboBox_diag_mode.cur
    /\ dialog' = [dialog EXCEPT !.remote.comboBox_diag_mode = setCurrentIndex(@, i)]

\* the line edits of the open dialog whose text float() converts
NumericLineEdits ==
    IF dialog.form = "xy_aper" THEN {"lineEdit_abs_xmax", "lineEdit_abs_ymax"}
    ELSE IF dialog.form \in {"xy", "px"}
    THEN {"lineEdit_xmin", "lineEdit_xmax", "lineEdit_2min", "lineEdit_2max",
          "lineEdit_x_offset", "lineEdit_y_offset", "lineEdit_delta_offset"}
    ELSE {}

\* what the user types into them: a number, or a text that is none
NumberTexts == {NumText(2000), BadText}

\* the user types into a numeric line edit
TypeNumber(field, text) ==
    /\ WidgetEdit
    /\ field \in NumericLineEdits
    /\ text # dialog[field]
    /\ dialog' = [dialog EXCEPT ![field] = text]

\* open_calc_opt_edit_dialog after dialog.exec_()
FinishEdit ==
    /\ pc = "returned"
    /\ pc' = "idle"
    /\ LET calc_type == editor_calc_type
           old == old_new_opt_set_names.old
       IN IF rename_needed(old_new_opt_set_names)
          THEN LET new == old_new_opt_set_names.new[1]
                   d == rename_opt_set(calc_opts[calc_type], old, new)
               IN /\ calc_opts' = [calc_opts EXCEPT ![calc_type] = d]
                  /\ calc_opts_id' = [calc_opts_id EXCEPT ![calc_type] =
                                        rename_opt_set(@, old, new)]
                  /\ editor' = [editor EXCEPT
                                  !.set_name = rename_in_editor_combobox(@, new)]
                  /\ selector' = [selector EXCEPT ![calc_type] =
                                    rename_in_selector_combobox(@, d, old, new)]
                  /\ ehist' = EHist("renamed", calc_type, old, new,
                                    DictHas(calc_opts[calc_type], new))
          ELSE /\ UNCHANGED <<calc_opts, calc_opts_id, editor, selector>>
               /\ ehist' = IF old_new_opt_set_names.new = <<>>
                           THEN EHist("cancelled", calc_type, old, "", FALSE)
                           ELSE EHist("unchanged", calc_type, old, old, FALSE)
    /\ UNCHANGED <<dialog, old_new_opt_set_names, n_edits, n_picks>>
    /\ UNCHANGED <<selVars, hist>>

\* _set_default_calc_opt_sets is called again between two handlers; the
\* method writes the catalog only, the combo boxes keep their items
SeedDefaults ==
    /\ pc = "idle"
    /\ calc_opts' = set_default_calc_opt_sets_over(calc_opts)
    /\ calc_opts_id' = set_default_calc_opt_ids
    /\ ehist' = EHist("seed", "", "", "", calc_opts # set_default_calc_opt_sets)
    /\ UNCHANGED <<editor, selector, pc, dialog, old_new_opt_set_names, n_edits, n_picks>>
    /\ UNCHANGED <<selVars, hist>>

-----------------------------------------------------------------------------
(* Initial state and specifications *)

\* the check boxes as the form gives them: all of one field alike, the
\* recalc / replot boxes enabled as their include box is checked
CheckBoxesInit(bi, bc, bp) ==
        /\ checkBox_nonlin =
             [f \in Fields |-> [k \in Kinds |->
                [checked |-> IF f = "include" THEN bi
                             ELSE IF f = "recalc" THEN bc ELSE bp,
                 enabled |-> IF f = "include" THEN TRUE ELSE bi]]]
        /\ checkBox_nonlin_all = [f \in Fields |->
                IF f = "include" THEN bi ELSE IF f = "recalc" THEN bc ELSE bp]
        /\ hist = [op |-> "init", field |-> "include", kind |-> "none", value |-> FALSE,
                   allBefore |-> FALSE, pre |-> NoRoundTrip, roundTrip |-> NoRoundTrip]

\* MainWindow.__init__ with the catalog opts: the combo boxes are filled
\* from it
InitCatWith(opts) ==
    /\ calc_opts = opts
    /\ calc_opts_id = set_default_calc_opt_ids
    /\ editor = update_nonlin_calc_opts_set_name_editor_combobox(opts, 1)
    /\ selector = update_nonlin_calc_opts_set_name_selector_comboboxes(
                    [k \in Kinds |-> EmptyComboBox], opts)
    /\ pc = "idle"
    /\ dialog = NoDialog
    /\ old_new_opt_set_names = [old |-> "", new |-> <<>>]
    /\ n_edits = 0
    /\ n_picks = 0
    /\ ehist = EHist("init", "", "", "", FALSE)

\* MainWindow.__init__: _set_default_calc_opt_sets, then the combo boxes
InitCat == InitCatWith(set_default_calc_opt_sets)

InitSel == \E bi \in BOOLEAN, bc \in BOOLEAN, bp \in BOOLEAN : CheckBoxesInit(bi, bc, bp)

Init == InitSel /\ InitCat

\* the check boxes all checked
InitChecked == CheckBoxesInit(TRUE, TRUE, TRUE) /\ InitCat

NextSel ==
    \/ \E k \in ClickKinds : ClickInclude(k)
    \/ \E k \in ClickKinds : ClickRecalc(k)
    \/ \E k \in ClickKinds : ClickReplot(k)
    \/ ClickIncludeAll
    \/ ClickRecalcAll
    \/ ClickReplotAll

NextCat ==
    \/ \E i \in 1..Len(all_nonlin_calc_types) : SelectCalcType(i)
    \/ \E i \in 1..Len(editor.set_name.items) : SelectSetName(i)
    \/ \E k \in VisitKinds : \E i \in 1..Len(selector[k].items) : SelectOptName(k, i)
    \/ OpenDialog
    \/ \E t \in NameTexts : EditName(t)
    \/ \E v \in TurnValues : EditNTurns(v)
    \/ Accept
    \/ Reject
    \/ FinishEdit

Next == NextSel \/ NextCat

\* the whole main window
Spec == Init /\ [][Next]_vars

\* the check boxes alone
SpecSel == Init /\ [][NextSel]_vars

\* the option editor alone
SpecCat == InitChecked /\ [][NextCat]_vars

\* the editor kept on the kind it shows first, opened twice more than in
\* SpecCat
NextSets ==
    \/ \E i \in 1..Len(editor.set_name.items) : SelectSetName(i)
    \/ OpenDialogWithin(MaxEdits + 2)
    \/ \E t \in NameTexts : EditName(t)
    \/ Accept
    \/ Reject
    \/ FinishEdit

SpecSets == InitChecked /\ [][NextSets]_vars

\* the editor with the remote option widgets of the map dialog
NextRemote ==
    \/ \E i \in 1..Len(all_nonlin_calc_types) : SelectCalcType(i)
    \/ \E i \in 1..Len(editor.set_name.items) : SelectSetName(i)
    \/ OpenDialog
    \/ ClickRemoteGroup
    \/ \E box \in RemoteCheckBoxes : ClickRemoteCheckBox(box)
    \/ \E t \in PartitionTexts : PickPartition(t)
    \/ \E v \in NTasksValues : SetNTasks(v)
    \/ \E t \in TimeTexts : TypeTime(t)
    \/ \E i \in 1..Len(diag_mode_items) : PickDiagMode(i)
    \/ Accept
    \/ Reject
    \/ FinishEdit

SpecRemote == InitChecked /\ [][NextRemote]_vars

\* remote options an option set can hold when the map dialog is opened
RemoteOptKeys == {"partition", "ntasks", "time", "diag_mode"}

RemoteOptsInputs ==
    {[key \in K |-> CASE key = "partition" -> "short"
                     [] key = "ntasks" -> 200
                     [] key = "time" -> "30:00"
                     [] key = "diag_mode" -> b] :
        K \in SUBSET RemoteOptKeys, b \in BOOLEAN}

\* the seeded catalog, the option set 'production' of 'fmap_px' holding the
\* remote options ro
CatalogWithRemoteOpts(ro) ==
    [set_default_calc_opt_sets EXCEPT
        !["fmap_px"] = DictSet(@, "production",
                               OptsUpdate(DictGet(@, "production"),
                                          [remote_opts |-> ro]))]

InitRoundTrip ==
    /\ CheckBoxesInit(TRUE, TRUE, TRUE)
    /\ \E ro \in RemoteOptsInputs : InitCatWith(CatalogWithRemoteOpts(ro))

\* the editor opened and closed with no control of the dialog changed
NextRoundTrip ==
    \/ \E i \in 1..Len(all_nonlin_calc_types) : SelectCalcType(i)
    \/ \E i \in 1..Len(editor.set_name.items) : SelectSetName(i)
    \/ OpenDialog
    \/ Accept
    \/ Reject
    \/ FinishEdit

SpecRoundTrip == InitRoundTrip /\ [][NextRoundTrip]_vars

\* the editor of the initially shown kind with the numeric line edits of its dialog
NextNumbers ==
    \/ OpenDialog
    \/ \E t \in NameTexts : EditName(t)
    \/ \E v \in TurnValues : EditNTurns(v)
    \/ \E f \in NumericLineEdits : \E t \in NumberTexts : TypeNumber(f, t)
    \/ Accept
    \/ Reject
    \/ FinishEdit

SpecNumbers == InitChecked /\ [][NextNumbers]_vars

NextSeed ==
    \/ \E i \in 1..Len(all_nonlin_calc_types) : SelectCalcType(i)
    \/ \E i \in 1..Len(editor.set_name.items) : SelectSetName(i)
    \/ OpenDialog
    \/ \E t \in NameTexts : EditName(t)
    \/ \E v \in TurnValues : EditNTurns(v)
    \/ Accept
    \/ Reject
    \/ FinishEdit
    \/ SeedDefaults

\* the option editor and a catalog that can be seeded again
SpecSeed == InitChecked /\ [][NextSeed]_vars

-----------------------------------------------------------------------------
(* Properties of the check boxes (checked under SpecSel) *)

AllChecked(f) == \A k \in Kinds : checkBox_nonlin[f][k].checked

IsSet(h, f) == h.op = "set" /\ h.field = f
IsSetAll(h, f) == h.op = "setAll" /\ h.field = f

\* C1: after every mutating call, includeAll is true if and only if
\* include[k] is true for every kind k (also when the kinds are included
\* again one at a time after includeAll became false).
C1_IncludeAllIffEveryKind == includeAll <=> AllChecked("include")

\* C2: recalcAll is the AND of recalc[k] over all kinds and replotAll the
\* AND of replot[k] over all kinds, after any sequence of operations.
C2_RecalcReplotAllAreAnd ==
    /\ recalcAll <=> AllChecked("recalc")
    /\ replotAll <=> AllChecked("replot")

\* C3: where includeAll is true, setInclude(k, false) yields
\* includeAll = false, include[k] = false and leaves include[j] unchanged
\* (true) for every other kind j.
C3_UncheckOneKind ==
    [][\A k \in Kinds :
        (includeAll /\ IsSet(hist', "include") /\ hist'.kind = k /\ ~hist'.value)
        => /\ ~includeAll'
           /\ ~include(k)'
           /\ \A j \in Kinds \ {k} : include(j)' /\ include(j)]_vars

C3_Witness ==
    /\ IsSet(hist, "include") /\ ~hist.value /\ hist.allBefore
    /\ ~includeAll
    /\ ~include(hist.kind)

\* C4: setIncludeAll / setRecalcAll / setReplotAll(value) set the flag of
\* every kind to value and the matching aggregate to value.
C4_SetAll ==
    \A f \in Fields :
        IsSetAll(hist, f) =>
            /\ \A k \in Kinds : checkBox_nonlin[f][k].checked = hist.value
            /\ checkBox_nonlin_all[f] = hist.value

\* a set-all on "recalc" to true right after one kind had been unchecked
C4_Witness ==
    /\ IsSetAll(hist, "recalc") /\ hist.value /\ ~hist.allBefore
    /\ recalcAll /\ AllChecked("recalc")
    /\ ~AllChecked("include")

\* C5: setInclude never writes recalc[k] / replot[k]; setInclude(k, false)
\* followed by setInclude(k, true) leaves them as before the two calls.
C5_IncludeKeepsRecalcReplot ==
    /\ IsSet(hist, "include") =>
          /\ recalc(hist.kind) = hist.pre.recalc
          /\ replot(hist.kind) = hist.pre.replot
    /\ hist.roundTrip.kind # "none" =>
          /\ recalc(hist.roundTrip.kind) = hist.roundTrip.recalc
          /\ replot(hist.roundTrip.kind) = hist.roundTrip.replot

\* include switched off and on again for a kind whose recalc is checked and
\* whose replot is not
C5_Witness ==
    /\ hist.roundTrip.kind # "none"
    /\ hist.roundTrip.recalc /\ ~hist.roundTrip.replot
    /\ include(hist.roundTrip.kind)
    /\ checkBox_nonlin["recalc"][hist.roundTrip.kind].enabled

\* C6: a per-kind edit setF(k, v) changes at most F[k] and the aggregate
\* FAll, never the flag of another kind or field; a set-all command is one
\* step that leaves its aggregate at the value set (no per-kind handler
\* writes it back) and returns to idle.
C6_NoRederivation ==
    [][/\ hist'.op = "set" =>
            /\ \A f \in Fields, j \in Kinds :
                  (f # hist'.field \/ j # hist'.kind)
                  => checkBox_nonlin'[f][j].checked = checkBox_nonlin[f][j].checked
            /\ \A f \in Fields \ {hist'.field} :
                  checkBox_nonlin_all'[f] = checkBox_nonlin_all[f]
       /\ hist'.op = "setAll" =>
            /\ checkBox_nonlin_all'[hist'.field] = hist'.value
            /\ \A f \in Fields \ {hist'.field} :
                  /\ checkBox_nonlin_all'[f] = checkBox_nonlin_all[f]
                  /\ checkBox_nonlin'[f] = checkBox_nonlin[f]
       /\ pc' = "idle"]_vars

\* one kind was unchecked while the aggregate was set: the aggregate went
\* off and another kind is still checked
C6_Witness ==
    /\ IsSet(hist, "include") /\ ~hist.value /\ hist.allBefore
    /\ ~includeAll
    /\ \E j \in Kinds \ {hist.kind} : include(j)

\* the check boxes of the two fields other than f, and their "all" boxes,
\* hold in the next state what they hold now
OtherFieldsKept(f) ==
    \A g \in Fields \ {f} :
        /\ \A k \in Kinds :
              checkBox_nonlin'[g][k].checked = checkBox_nonlin[g][k].checked
        /\ checkBox_nonlin_all'[g] = checkBox_nonlin_all[g]

\* C29: the three flag fields are independent: a click on a box of one
\* field, per kind or "all", leaves the per-kind values and the aggregate
\* of the two other fields as they were, and no click on a selection box
\* changes the option catalog, the editor or a selector.
C29_FieldsIndependent ==
    [][hist'.op \in {"set", "setAll"} =>
          /\ OtherFieldsKept(hist'.field)
          /\ UNCHANGED <<calc_opts, calc_opts_id, editor, selector>>]_vars

\* a recalc box was unchecked while every box was checked: the recalc
\* aggregate went off, the aggregates and boxes of include and replot stay
C29_Witness ==
    /\ IsSet(hist, "recalc") /\ ~hist.value /\ hist.allBefore
    /\ ~recalcAll /\ includeAll /\ replotAll
    /\ AllChecked("include") /\ AllChecked("replot")

-----------------------------------------------------------------------------
(* Properties of the rename (checked under SpecCat) *)

\* the rename step of open_calc_opt_edit_dialog is about to run
RenameCall == pc = "returned" /\ old_new_opt_set_names.new # <<>>
OldName == old_new_opt_set_names.old
NewName == old_new_opt_set_names.new[1]
KindDict == calc_opts[editor_calc_type]

\* C7: when rename(k, a, b) succeeds (a exists, b differs from a), then
\* get(k, a) fails (a is no key) and get(k, b) returns the option set
\* formerly named a, parameters and remote options included.
C7_RenameMoves ==
    [][(RenameCall /\ NewName # OldName /\ DictHas(KindDict, OldName))
       => /\ ~DictHas(KindDict', OldName)
          /\ DictHas(KindDict', NewName)
          /\ DictGet(KindDict', NewName) = DictGet(KindDict, OldName)]_vars

C7_Witness ==
    /\ ehist.op = "renamed" /\ ~ehist.clobbered
    /\ ehist.new = "alt" /\ ehist.old = "test"
    /\ DictHas(calc_opts[ehist.kind], "alt")
    /\ ~DictHas(calc_opts[ehist.kind], "test")

\* C8: rename fails with ConflictError when newName already exists for the
\* kind and differs from oldName, and the catalog is then unchanged.
C8_ConflictLeavesCatalog ==
    [][(RenameCall /\ NewName # OldName /\ DictHas(KindDict, NewName))
       => /\ calc_opts' = calc_opts
          /\ DictHas(KindDict', OldName)
          /\ DictHas(KindDict', NewName)]_vars

\* C9: after any rename call the number of option sets of the kind is the
\* same as before.
C9_RenameKeepsCount ==
    [][RenameCall => Len(KindDict') = Len(KindDict)]_vars

\* C10: rename with oldName = newName is a no-op: the catalog and every
\* selector are unchanged and the outcome is "unchanged".
C10_RenameSameName ==
    [][(RenameCall /\ NewName = OldName)
       => /\ calc_opts' = calc_opts
          /\ editor' = editor
          /\ selector' = selector
          /\ ehist'.op = "unchanged"]_vars

C10_Witness ==
    /\ ehist.op = "unchanged"
    /\ pc = "idle"
    /\ DictHas(calc_opts[ehist.kind], ehist.old)
    /\ Len(calc_opts[ehist.kind]) = 2

\* C11: rename with an empty newName fails with ValidationError and leaves
\* the catalog unchanged; in no reachable state has any kind an option set
\* whose name is the empty string.
C11_NoEmptyName ==
    /\ \A k \in Kinds : ~DictHas(calc_opts[k], "")
    /\ (ehist.op = "renamed" => ehist.new # "")

\* C12: a successful rename is atomic: the handler that renames runs to its
\* end before any other handler can look at the catalog, so no state that
\* can be observed holds the option set under both names or under neither.
\* Before the rename the old name is a key and the new one is not; after it
\* the new name is a key and the old one is not.
C12_RenameAtomic ==
    /\ (RenameCall /\ NewName # OldName /\ ~DictHas(KindDict, NewName))
       => DictHas(KindDict, OldName)
    /\ (ehist.op = "renamed" /\ ~ehist.clobbered)
       => /\ DictHas(calc_opts[ehist.kind], ehist.new)
          /\ ~DictHas(calc_opts[ehist.kind], ehist.old)
          /\ pc = "idle"

C12_Witness ==
    /\ ehist.op = "renamed" /\ ~ehist.clobbered
    /\ ehist.old = "production" /\ ehist.new = "alt"
    /\ DictKeys(calc_opts[ehist.kind]) = <<"test", "alt">>

-----------------------------------------------------------------------------
(* Properties of the seeding (checked under SpecSeed) *)

Seeded == ehist.op \in {"init", "seed"}

\* C13: right after seedDefaults every kind has at least the option sets
\* "production" and "test", and the turn count of "test" is at most the
\* turn count of "production".
C13_SeededProductionAndTest ==
    Seeded =>
        \A k \in Kinds :
            /\ DictHas(calc_opts[k], "production")
            /\ DictHas(calc_opts[k], "test")
            /\ DictGet(calc_opts[k], "test")["n_turns"]
                  <= DictGet(calc_opts[k], "production")["n_turns"]

\* C14: seedDefaults is deterministic and replaces what was there: called
\* in any catalog state it leaves the catalog a new window has, calling it
\* twice is the same as calling it once, and no option set added or
\* renamed before survives it.
C14_SeedReplaces ==
    /\ ehist.op = "seed" => calc_opts = set_default_calc_opt_sets
    /\ set_default_calc_opt_sets_over(calc_opts) = set_default_calc_opt_sets
    /\ set_default_calc_opt_sets_over(set_default_calc_opt_sets_over(calc_opts))
          = set_default_calc_opt_sets_over(calc_opts)

\* seeding again after a rename: the editor still lists the renamed set,
\* the catalog does not hold it any more
C14_Witness ==
    /\ ehist.op = "seed" /\ ehist.clobbered
    /\ currentText(editor.set_name) = "alt"
    /\ ~DictHas(KindDict, "alt")
    /\ DictKeys(KindDict) = <<"production", "test">>

-----------------------------------------------------------------------------
(* Properties of the look-up (checked under SpecSets) *)

\* the option editor is asked for the set the editor combo box shows
GetCall == pc = "idle" /\ ehist'.op \in {"open", "KeyError"}
GetName == currentText(editor.set_name)

\* C15: get(kind, name) returns the option set stored under name and fails
\* with the not-found error (KeyError), the catalog unchanged, when the
\* kind has no set of that name, a name that was renamed away included.
C15_GetOrNotFound ==
    [][GetCall =>
        /\ calc_opts' = calc_opts
        /\ ehist'.op = "KeyError"
              <=> ~(\E i \in 1..Len(KindDict) : KindDict[i].name = GetName)
        /\ ehist'.op = "KeyError" => pc' = "idle" /\ dialog' = NoDialog
        /\ ehist'.op = "open" =>
              \E i \in 1..Len(KindDict) :
                 /\ KindDict[i].name = GetName
                 /\ dialog'.lineEdit_opt_set_name = GetName
                 /\ dialog'.spinBox_n_turns = KindDict[i].opts["n_turns"]]_vars

\* the editor asked for a set whose name was renamed away
C15_Witness ==
    /\ ehist.op = "KeyError"
    /\ pc = "idle"
    /\ ehist.old = GetName
    /\ ~DictHas(KindDict, ehist.old)
    /\ Len(KindDict) = 1

-----------------------------------------------------------------------------
(* Properties of the name lists (checked under SpecCat) *)

NamesWithout(names, name) == SelectSeq(names, LAMBDA n : n # name)

\* C16: listNames(kind) gives the names of the kind in insertion order, and
\* the name lists of the editor and of the selector of a kind are that
\* sequence whenever they are filled: in the seeded catalog "production"
\* comes before "test", and a name created later (by a rename to a name
\* that was no key) comes after every name that was there before.
C16_NamesInInsertionOrder ==
    /\ editor.set_name.items = DictKeys(KindDict)
    /\ \A k \in Kinds :
          /\ selector[k].items = DictKeys(calc_opts[k])
          /\ DictHas(calc_opts[k], "test") =>
                /\ DictKeys(calc_opts[k])[1] = "production"
                /\ DictKeys(calc_opts[k])[2] = "test"
    /\ [][/\ editor'.calc_type_index # editor.calc_type_index
             => editor'.set_name.items = DictKeys(KindDict')
          /\ (RenameCall /\ NewName # OldName)
             => /\ selector'[editor_calc_type].items = DictKeys(KindDict')
                /\ ~DictHas(KindDict, NewName)
                   => DictKeys(KindDict')
                        = NamesWithout(DictKeys(KindDict), OldName) \o <<NewName>>]_vars

\* "test" renamed to a new name, which the selector of the kind lists last
C16_Witness ==
    /\ ehist.op = "renamed" /\ ~ehist.clobbered
    /\ ehist.kind = "fmap_px"
    /\ selector[ehist.kind].items = <<"production", "alt">>
    /\ DictKeys(calc_opts[ehist.kind]) = <<"production", "alt">>

-----------------------------------------------------------------------------
(* Properties of the remote options (checked under SpecRemote) *)

\* the option sets of the catalog that hold the remote option key
HasRemoteOpt(k, i, key) ==
    /\ "remote_opts" \in DOMAIN calc_opts[k][i].opts
    /\ key \in DOMAIN calc_opts[k][i].opts["remote_opts"]
RemoteOpt(k, i, key) == calc_opts[k][i].opts["remote_opts"][key]

\* the allow-list of the cluster the options are validated against
allowedPartitions == <<"short", "long">>

\* C17: validate(spec, allowedPartitions) fails with ValidationError
\* ("unknown partition") when the partition is present and no member of the
\* allow-list it is given, so that no option set is stored with a partition
\* outside the allow-list.
C17_PartitionInAllowList ==
    \A k \in Kinds : \A i \in 1..Len(calc_opts[k]) :
        HasRemoteOpt(k, i, "partition") =>
            \E j \in 1..Len(allowedPartitions) :
                allowedPartitions[j] = RemoteOpt(k, i, "partition")

\* C18: validate fails with ValidationError citing taskCount when the task
\* count is present and not positive, so that no option set is stored with
\* a task count of zero or less.
C18_TaskCountPositive ==
    \A k \in Kinds : \A i \in 1..Len(calc_opts[k]) :
        HasRemoteOpt(k, i, "ntasks") => RemoteOpt(k, i, "ntasks") > 0

\* the characters of the texts of the time line edit
TimeChars(t) ==
    CASE t = "30:00" -> <<"3", "0", ":", "0", "0">>
      [] t = "abc" -> <<"a", "b", "c">>
      [] t = " " -> <<" ">>
      [] OTHER -> <<>>

DigitChars == {"0", "1", "2", "3", "4", "5", "6", "7", "8", "9"}

\* HH:MM, both parts numeric
IsHHMM(cs) ==
    \E c \in 2..(Len(cs) - 1) :
        /\ cs[c] = ":"
        /\ \A j \in (1..Len(cs)) \ {c} : cs[j] \in DigitChars

\* C19: validate fails with ValidationError when the wall time is present,
\* not blank and not of the form HH:MM with both parts numeric (a blank
\* time counts as absent), so that every stored time has the form HH:MM,
\* as the seeded "30:00" has.
C19_WallTimeIsHHMM ==
    \A k \in Kinds : \A i \in 1..Len(calc_opts[k]) :
        HasRemoteOpt(k, i, "time") => IsHHMM(TimeChars(RemoteOpt(k, i, "time")))

\* the map dialog is accepted
AcceptCall ==
    /\ pc = "dialog" /\ pc' = "returned"
    /\ dialog.form \in {"xy", "px"}
    /\ ehist'.op # "rejected"

\* C20: after an accepted edit the option set has remote options if and
\* only if the remote option group is checked; within them partition, task
\* count and diagnostic mode are present if and only if their own check box
\* is checked, and the time if and only if its check box is checked and its
\* text is not blank; remote options without any field are accepted.
C20_RemoteOptsSparse ==
    [][AcceptCall =>
        LET r == dialog.remote
            i == CHOOSE j \in 1..Len(KindDict') : KindDict'[j].name = OldName
            o == KindDict'[i].opts
        IN /\ ehist'.op = "accepted"
           /\ "remote_opts" \in DOMAIN o <=> r.groupBox_remote_opts
           /\ r.groupBox_remote_opts =>
                /\ "partition" \in DOMAIN o["remote_opts"] <=> r.checkBox_partition
                /\ "ntasks" \in DOMAIN o["remote_opts"] <=> r.checkBox_ntasks
                /\ "diag_mode" \in DOMAIN o["remote_opts"] <=> r.checkBox_diag_mode
                /\ "time" \in DOMAIN o["remote_opts"]
                      <=> (r.checkBox_time /\ r.lineEdit_time \notin {"", " "})]_vars

\* an accepted edit that left a partition and a time and nothing else
C20_Witness ==
    /\ ehist.op = "accepted"
    /\ \E i \in 1..Len(calc_opts[ehist.kind]) :
          /\ calc_opts[ehist.kind][i].name = ehist.old
          /\ "remote_opts" \in DOMAIN calc_opts[ehist.kind][i].opts
          /\ DOMAIN calc_opts[ehist.kind][i].opts["remote_opts"] = {"partition", "time"}
          /\ calc_opts[ehist.kind][i].opts["remote_opts"]["time"] = "30:00"

-----------------------------------------------------------------------------
(* Further properties of the check boxes (checked under SpecSel) *)

\* C21: for every kind k, after any sequence of include clicks and
\* include-all clicks, the recalc and replot check boxes of k are enabled if
\* and only if include[k] is checked; the include-all box disables and
\* enables them as the include box of one kind does.
C21_EnabledIffIncluded ==
    \A k \in Kinds :
        /\ checkBox_nonlin["recalc"][k].enabled <=> include(k)
        /\ checkBox_nonlin["replot"][k].enabled <=> include(k)

-----------------------------------------------------------------------------
(* Further properties of the rename (checked under SpecCat) *)

\* C22: after a rename of oldName to newName in kind k the name selected in
\* the selector of kind k is newName if it was oldName before and is
\* unchanged if it was another name; a selector that has a selected name
\* then selects a key of the catalog of kind k.
C22_SelectedNameFollowsRename ==
    [][(RenameCall /\ NewName # OldName) =>
        LET before == currentText(selector[editor_calc_type])
            after == currentText(selector'[editor_calc_type])
        IN /\ before = OldName => after = NewName
           /\ before # OldName => after = before
           /\ selector[editor_calc_type].cur # 0 =>
                 /\ selector'[editor_calc_type].cur # 0
                 /\ \E i \in 1..Len(KindDict') : KindDict'[i].name = after]_vars

\* the selector of the kind had "test" selected when "test" was renamed
C22_Witness ==
    /\ ehist.op = "renamed" /\ ~ehist.clobbered
    /\ ehist.old = "test" /\ ehist.new = "alt"
    /\ n_picks > 0
    /\ currentText(selector[ehist.kind]) = "alt"

\* C23: after a rename to a new, non-empty name the ordered name list of the
\* set name combo box of the editor equals the ordered name list of the catalog for
\* the kind being edited, and equals the list of the selector of that kind.
C23_EditorListIsCatalogList ==
    (ehist.op = "renamed" /\ ~ehist.clobbered /\ ehist.new # "") =>
        /\ editor.set_name.items = DictKeys(KindDict)
        /\ editor.set_name.items = selector[editor_calc_type].items

-----------------------------------------------------------------------------
(* Properties of the map dialog opened on stored remote options (checked   *)
(* under SpecRoundTrip)                                                     *)

\* the position of the option set being edited in the dict of its kind
EditedIndex == CHOOSE i \in 1..Len(KindDict) : KindDict[i].name = OldName

-----------------------------------------------------------------------------
(* Further properties of the seeding (checked under SpecSeed) *)

\* C25: right after seedDefaults, for every kind that has an option set
\* "test", the parameter keys of "test" are the parameter keys of
\* "production" of the kind: deriving "test" adds no key (no 'ny' in a kind
\* whose grid keys are 'nx' and 'ndelta').
C25_TestKeysAreProductionKeys ==
    Seeded =>
        \A k \in Kinds :
            DictHas(calc_opts[k], "test") =>
                DOMAIN DictGet(calc_opts[k], "test")
                    = DOMAIN DictGet(calc_opts[k], "production")

-----------------------------------------------------------------------------
(* Frame properties of the option editor (checked under SpecCat) *)

\* the dialog is accepted, whatever its form
AnyAcceptCall == pc = "dialog" /\ pc' = "returned" /\ ehist'.op # "rejected"

\* the entries of the catalog: kind and position
Entries == {e \in Kinds \X (1..2) : e[2] <= Len(calc_opts[e[1]])}

\* C26: no two entries of the catalog share parameter storage: in every
\* state reached from the seeded catalog by edits and renames the entries
\* refer to different dict objects, and an accepted edit of the option set
\* (k, n) leaves every other option set of every kind unchanged, the "test"
\* sets copied from "production" and the cmap sets copied from the fmap
\* sets included.
C26_NoSharedStorage ==
    /\ [](\A e1 \in Entries, e2 \in Entries :
            e1 # e2 => calc_opts_id[e1[1]][e1[2]].opts # calc_opts_id[e2[1]][e2[2]].opts)
    /\ [][AnyAcceptCall =>
            \A k \in Kinds : \A i \in 1..Len(calc_opts[k]) :
                (k # editor_calc_type \/ calc_opts[k][i].name # OldName)
                => calc_opts'[k][i] = calc_opts[k][i]]_vars

\* 'production' of fmap_px was edited; 'test' of fmap_px and the cmap_px
\* copy of 'production' hold the seeded number of turns
C26_Witness ==
    /\ ehist.op = "accepted" /\ ehist.kind = "fmap_px" /\ ehist.old = "production"
    /\ DictGet(calc_opts["fmap_px"], "production")["n_turns"] = 64
    /\ DictGet(calc_opts["fmap_px"], "test")["n_turns"] = 1024
    /\ DictGet(calc_opts["cmap_px"], "production")["n_turns"] = 1024

\* a step of an edit that is not, or not yet, accepted: the dialog opens,
\* the user types, the dialog is closed without being accepted, the handler
\* returns after that
UnacceptedStep ==
    \/ pc = "idle" /\ pc' = "dialog"
    \/ pc = "dialog" /\ pc' = "dialog"
    \/ pc = "dialog" /\ ehist'.op = "rejected"
    \/ pc = "returned" /\ old_new_opt_set_names.new = <<>>

\* C27: an edit that is cancelled changes nothing: whatever was typed into
\* the dialog, the catalog (names, order, parameters, remote options), the
\* name list of the editor and every selector are as before the edit was
\* opened.
C27_CancelChangesNothing ==
    [][UnacceptedStep =>
        /\ calc_opts' = calc_opts
        /\ calc_opts_id' = calc_opts_id
        /\ editor' = editor
        /\ selector' = selector
        /\ ehist'.op = "rejected" => old_new_opt_set_names'.new = <<>>
        /\ pc = "returned" => ehist'.op = "cancelled" /\ pc' = "idle"]_vars

\* the handler returned from a cancelled edit, the catalog as seeded
C27_Witness ==
    /\ ehist.op = "cancelled"
    /\ pc = "idle"
    /\ n_edits > 0
    /\ calc_opts = set_default_calc_opt_sets
    /\ editor.set_name.items = DictKeys(KindDict)

\* a run of open_calc_opt_edit_dialog up to dialog.exec_() is the step
OpenCall ==
    pc = "idle" /\ ehist'.op \in {"open", "KeyError", "NotImplementedError", "ValueError"}

\* C30: opening the option editor for a kind that has no editor (tswa,
\* nonlin_chrom, mom_aper) or for an unknown kind fails with an error before
\* any state is written: no dialog is opened, and the catalog, the name list
\* of the editor, every selector and the selection boxes are unchanged.
C30_NoEditorFailsUnwritten ==
    [][(OpenCall /\ editor_calc_type \notin
                      {"xy_aper", "fmap_xy", "cmap_xy", "fmap_px", "cmap_px"}) =>
          /\ ehist'.op \in {"KeyError", "NotImplementedError", "ValueError"}
          /\ pc' = "idle" /\ dialog' = NoDialog
          /\ UNCHANGED <<calc_opts, calc_opts_id, editor, selector>>
          /\ UNCHANGED selVars]_vars

\* the editor was asked to open for tswa with its 'production' set selected
C30_Witness ==
    /\ ehist.op = "NotImplementedError" /\ ehist.kind = "tswa"
    /\ ehist.old = "production"
    /\ pc = "idle" /\ dialog = NoDialog
    /\ editor_calc_type = "tswa"
    /\ editor.set_name.items = DictKeys(calc_opts["tswa"])

-----------------------------------------------------------------------------
(* Properties of the numeric fields (checked under SpecNumbers) *)

\* C28: an accepted edit in which a numeric field holds a text that is no
\* number fails as a whole: the stored option set keeps all its parameter
\* values and its name, neither the accept nor the return of the handler
\* after it writes the catalog.
C28_BadNumberFailsAsAWhole ==
    [][/\ (pc = "dialog" /\ ehist'.op = "ValueError") => calc_opts' = calc_opts
       /\ (pc = "returned" /\ ehist.op = "ValueError") => calc_opts' = calc_opts]_vars

====
